---- MODULE Spec2Model ----
(***************************************************************************)
(* Workflow state machine of the research agent: the LangGraph graph of    *)
(* src/workflow/graph.py, its node and edge functions (src/workflow/       *)
(* nodes.py) and the agent methods they call (src/agents/*.py).            *)
(*                                                                         *)
(* Conventions.  A dictionary key that may be absent, and a value that may *)
(* be None, is a sequence of length 0 (absent / None) or 1 (present).      *)
(* The text-generation backend and the search providers are inputs: every  *)
(* action draws their answers from small sets with \E.                     *)
(***************************************************************************)
EXTENDS Integers, Sequences, FiniteSets, TLC

\* ------------------------------------------------------------------ bounds
MaxTasks == 2        \* sub_tasks of a backend-produced plan
MaxEst == 2          \* largest estimated_iterations the backend writes
MaxCallerIter == 2   \* largest max_iterations argument of a run
MaxPairs == 1        \* (query, source) pairs of a task in the study of the loop
MaxSources == 2      \* (query, source) pairs of a task in the study of one task
MaxRuns == 2         \* runs started on one ResearchWorkflow

\* ------------------------------------------------------- program constants
DefaultPriority == 99
DefaultTaskId == 0
DefaultMaxIterations == 5
DefaultEstimatedIterations == 3
FallbackEstimatedIterations == 2

\* ------------------------------------------------------------ optionals
Missing == <<>>
Some(x) == <<x>>
Get(opt, default) == IF opt = Missing THEN default ELSE opt[1]

None == "None"                       \* Python None of a text-valued field
Truthy(text) == text # None /\ text # ""

\* ------------------------------------------------------------ data model
NoStatus == "absent"                 \* a task without a 'status' key

FallbackTask ==
    [task_id |-> Some(1), priority |-> Some(1), status |-> "pending", pairs |-> 1]

create_fallback_plan ==
    [sub_tasks |-> <<FallbackTask>>,
     estimated_iterations |-> Some(FallbackEstimatedIterations)]

SeqsUpTo(S, n) == UNION {[1..k -> S] : k \in 0..n}

EstValues == {Missing} \cup {Some(e) : e \in 0..MaxEst}

\* Plans whose tasks are numbered 1, 2, ... in order and carry no priority.
NumberedTasks(statuses, pairs, n) ==
    UNION {{[i \in 1..k |-> [task_id |-> Some(i), priority |-> Missing,
                             status |-> f[i].status, pairs |-> f[i].pairs]] :
               f \in [1..k -> [status : statuses, pairs : pairs]]} : k \in 0..n}

\* What the backend writes as a plan during a run of the whole workflow.
\* Each task has one (query, source) pair, but for the plans of a single
\* task, which has any number of them.
BackendPlans ==
    [sub_tasks : NumberedTasks({"pending", NoStatus}, {1}, MaxTasks),
     estimated_iterations : EstValues]
    \cup
    [sub_tasks : {<<[task_id |-> Some(1), priority |-> Missing, status |-> "pending",
                    pairs |-> n]>> : n \in 0..MaxPairs},
     estimated_iterations : {Missing}]

\* What the backend writes as a plan in the study of the research loop: tasks
\* with and without ids and priorities, with equal ids, already completed ...
QueueTasks ==
    [task_id : {Missing, Some(1), Some(2)}, priority : {Missing, Some(1)},
     status : {"pending", "completed"}, pairs : {1}]

\* ... and numbered tasks with any number of (query, source) pairs.
QueuePlans ==
    [sub_tasks : SeqsUpTo(QueueTasks, MaxTasks)
                 \cup NumberedTasks({"pending"}, 0..MaxPairs, MaxTasks),
     estimated_iterations : {Missing}]

\* What the backend writes as a plan in the study of one task: a task with any
\* number of (query, source) pairs, alone or followed by a second task.
TaskPlans ==
    [sub_tasks : UNION {{<<[task_id |-> Some(1), priority |-> Missing,
                            status |-> "pending", pairs |-> n]>>,
                         <<[task_id |-> Some(1), priority |-> Missing,
                            status |-> "pending", pairs |-> n],
                           [task_id |-> Some(2), priority |-> Missing,
                            status |-> "pending", pairs |-> 1]>>} : n \in 0..MaxSources},
     estimated_iterations : {Missing}]

\* A backend response to a plan prompt: where find('{') and rfind('}') land
\* (-1: not found), whether the text between them is valid JSON, and the
\* object it parses to.
BracePos == {-1, 0, 1}

WellFormedResponse(r) ==
    /\ (r.open >= 0 /\ r.close >= 0) => r.open # r.close
    /\ r.parses => (r.open >= 0 /\ r.close > r.open)

\* The text of a response without the object it parses to.
Shape(r) == [open |-> r.open, close |-> r.close, parses |-> r.parses]

Responses(plans) ==
    {r \in [open : BracePos, close : BracePos, parses : {TRUE}, plan : {Some(p) : p \in plans}]
           \cup [open : BracePos, close : BracePos, parses : {FALSE}, plan : {Missing}] :
        WellFormedResponse(r)}

\* Raw backend answers to the classification and sufficiency prompts, and
\* what .strip().upper() makes of them.
ClassifyOutputs == {"GREETING", " inappropriate\n", "Research", "It is a greeting"}
SufficiencyOutputs == {"YES", " yes\n", "NO", "Yes, sufficient"}

StripUpper(text) ==
    CASE text = " inappropriate\n" -> "INAPPROPRIATE"
      [] text = "Research" -> "RESEARCH"
      [] text = " yes\n" -> "YES"
      [] text = "It is a greeting" -> "IT IS A GREETING"
      [] text = "Yes, sufficient" -> "YES, SUFFICIENT"
      [] text = " approve\n" -> "APPROVE"
      [] text = "Reject the plan" -> "REJECT THE PLAN"
      [] OTHER -> text

\* ------------------------------------------------------------ Coordinator
\* Mutant: an answer outside the three types is refused.
classify_query_fail_closed(text) ==
    IF StripUpper(text) \notin {"GREETING", "INAPPROPRIATE", "RESEARCH"}
    THEN "INAPPROPRIATE"
    ELSE StripUpper(text)

classify_query(text) ==
    IF StripUpper(text) \notin {"GREETING", "INAPPROPRIATE", "RESEARCH"}
    THEN "RESEARCH"
    ELSE StripUpper(text)

IsSimple(qt) == qt \in {"GREETING", "INAPPROPRIATE"}

\* ---------------------------------------------------------------- Planner
\* The key under which create_research_plan looks for the tasks it stamps.
StampKey == "sub_task"

PlanGet(plan, key) == IF key = "sub_tasks" THEN plan.sub_tasks ELSE <<>>

StampPending(plan) ==
    IF StampKey = "sub_tasks"
    THEN [plan EXCEPT !.sub_tasks =
            [i \in DOMAIN PlanGet(plan, StampKey) |->
                [PlanGet(plan, StampKey)[i] EXCEPT !.status = "pending"]]]
    ELSE plan

\* response[start:end] is handed to json.loads
HasObject(resp) == resp.open # -1 /\ resp.close + 1 > resp.open

\* Mutant: the JSONDecodeError handler does not store the fallback plan.
create_research_plan_no_store(resp, max_iterations) ==
    IF HasObject(resp)
    THEN IF resp.parses
         THEN [research_plan |-> Some(StampPending(resp.plan[1])),
               max_iterations |->
                   Get(resp.plan[1].estimated_iterations, DefaultEstimatedIterations)]
         ELSE [research_plan |-> Missing, max_iterations |-> max_iterations]
    ELSE [research_plan |-> Some(create_fallback_plan),
          max_iterations |->
              Get(create_fallback_plan.estimated_iterations, DefaultEstimatedIterations)]

\* create_research_plan: the plan and the max_iterations it leaves in the state.
create_research_plan(resp, max_iterations) ==
    IF HasObject(resp)
    THEN IF resp.parses
         THEN [research_plan |-> Some(StampPending(resp.plan[1])),
               max_iterations |->
                   Get(resp.plan[1].estimated_iterations, DefaultEstimatedIterations)]
         ELSE [research_plan |-> Some(create_fallback_plan),
               max_iterations |-> max_iterations]
    ELSE [research_plan |-> Some(create_fallback_plan),
          max_iterations |->
              Get(create_fallback_plan.estimated_iterations, DefaultEstimatedIterations)]

\* Mutant: a revision that does not parse stores the fallback plan.
modify_plan_fallback(research_plan, resp) ==
    IF HasObject(resp) /\ resp.parses THEN resp.plan ELSE Some(create_fallback_plan)

\* modify_plan: the plan it leaves in the state.
modify_plan(research_plan, resp) ==
    IF HasObject(resp) /\ resp.parses THEN resp.plan ELSE research_plan

\* Mutant: planner_node creates a plan when there is none and does nothing else.
planner_node_path_no_feedback(user_feedback, research_plan) ==
    IF research_plan = Missing THEN "create" ELSE "keep"

\* Which branch planner_node takes.
planner_node_path(user_feedback, research_plan) ==
    IF Truthy(user_feedback) /\ research_plan # Missing THEN "modify"
    ELSE IF research_plan = Missing THEN "create"
    ELSE "keep"

\* Mutant: the first iteration is never judged by the backend's answer.
evaluate_context_sufficiency_skip_first(results, iteration, max_iterations, answer) ==
    IF iteration >= max_iterations \/ iteration = 0 THEN FALSE
    ELSE IF results = <<>> THEN FALSE
    ELSE StripUpper(answer) = "YES"

evaluate_context_sufficiency(results, iteration, max_iterations, answer) ==
    IF iteration >= max_iterations THEN FALSE
    ELSE IF results = <<>> THEN FALSE
    ELSE StripUpper(answer) = "YES"

\* Whether evaluate_context_sufficiency reaches its backend call.
ConsultsBackend(results, iteration, max_iterations) ==
    ~(iteration >= max_iterations) /\ results # <<>>

TaskKey(t) == <<Get(t.priority, DefaultPriority), Get(t.task_id, DefaultTaskId)>>

KeyLess(a, b) == a[1] < b[1] \/ (a[1] = b[1] /\ a[2] < b[2])

\* Mutant: the tasks are left in plan order.
sorted_plan_order(tasks) == [r \in DOMAIN tasks |-> r]

\* sorted(tasks, key=...): the indices of tasks in the order of the sorted
\* list (the sort is stable).
sorted(tasks) ==
    LET Before(i, j) == \/ KeyLess(TaskKey(tasks[i]), TaskKey(tasks[j]))
                        \/ (TaskKey(tasks[i]) = TaskKey(tasks[j]) /\ i < j)
        Rank(i) == Cardinality({j \in DOMAIN tasks : Before(j, i)}) + 1
    IN [r \in DOMAIN tasks |-> CHOOSE i \in DOMAIN tasks : Rank(i) = r]

\* get_next_task: the index in sub_tasks of the task returned, 0 for None.
get_next_task(research_plan) ==
    IF research_plan = Missing THEN 0
    ELSE LET tasks == research_plan[1].sub_tasks
             order == sorted(tasks)
             hits == {r \in DOMAIN order : tasks[order[r]].status = "pending"}
         IN IF hits = {} THEN 0
            ELSE order[CHOOSE r \in hits : \A q \in hits : r <= q]

\* ------------------------------------------------------------- Researcher
SearchOutcomes == {"found", "raises", "unsupported"}

\* Mutant: a search that raises leaves no result.
search_drops_error(outcome) ==
    CASE outcome = "found" -> Some([error |-> FALSE])
      [] OTHER -> Missing

\* _search: None for a source that is unknown or not configured, the tool's
\* result otherwise; an exception of the tool becomes an error-tagged result.
search(outcome) ==
    CASE outcome = "found" -> Some([error |-> FALSE])
      [] outcome = "raises" -> Some([error |-> TRUE])
      [] OTHER -> Missing

\* The batches execute_task collects for the task over its (query, source)
\* pairs: every result that is not None, tagged with the task's id.
CollectResults(task, outcomes) ==
    LET all == [k \in 1..task.pairs |-> [pair |-> k, result |-> search(outcomes[k])]]
        Kept(r) == r.result # Missing
        kept == SelectSeq(all, Kept)
    IN [i \in DOMAIN kept |->
           [task_id |-> Get(task.task_id, DefaultTaskId), pair |-> kept[i].pair,
            error |-> kept[i].result[1].error]]

\* The first sub-task whose task_id equals the executed task's is completed.
MarkCompleted(tasks, task_id) ==
    LET same == {i \in DOMAIN tasks : tasks[i].task_id = task_id}
    IN IF same = {} THEN tasks
       ELSE [tasks EXCEPT ![CHOOSE i \in same : \A j \in same : i <= j].status =
                 "completed"]

\* execute_task: task['task_id'] raises KeyError for a task without the key.
execute_task_raises(task) == task.task_id = Missing

\* Mutant: the new batches replace the results instead of extending them.
execute_task_replace(research_plan, research_results, task, outcomes) ==
    [research_results |-> CollectResults(task, outcomes),
     research_plan |->
        IF research_plan = Missing THEN research_plan
        ELSE Some([research_plan[1] EXCEPT
                      !.sub_tasks = MarkCompleted(@, task.task_id)])]

execute_task(research_plan, research_results, task, outcomes) ==
    [research_results |-> research_results \o CollectResults(task, outcomes),
     research_plan |->
        IF research_plan = Missing THEN research_plan
        ELSE Some([research_plan[1] EXCEPT
                      !.sub_tasks = MarkCompleted(@, task.task_id)])]

\* Mutant: one iteration counted for each (query, source) pair.
next_iteration_count_per_pair(iteration_count, task) == iteration_count + task.pairs

\* researcher_node: state['iteration_count'] += 1 before the task is executed.
next_iteration_count(iteration_count, task) == iteration_count + 1

\* ------------------------------------------------------------- Rapporteur
\* Mutant: the goal line reads plan.get('research_goal') without a test.
generate_report_needs_plan(research_plan, research_results, llm_ok) ==
    IF ~llm_ok THEN [raises |-> "backend", final_report |-> None]
    ELSE IF research_plan = Missing
         THEN [raises |-> "AttributeError", final_report |-> None]
         ELSE [raises |-> "none", final_report |-> "report"]

\* generate_report: the report it stores, or what it raises.  The goal line
\* reads the plan only if there is one, and the summary and the sections run
\* over whatever results there are; only a backend call can raise.
generate_report(research_plan, research_results, llm_ok) ==
    IF ~llm_ok THEN [raises |-> "backend", final_report |-> None]
    ELSE [raises |-> "none", final_report |-> "report"]

\* ----------------------------------------------------------- approval gate
DefaultFeedback == "Please re-optimize the research plan"

\* What the approver types at the feedback prompt, after .strip().
TypedFeedbacks == {"", "add more sources"}

\* Mutant: an empty feedback is returned as it is.
human_approval_callback_as_typed(choice, typed) ==
    IF choice = "1" THEN [approved |-> TRUE, feedback |-> None]
    ELSE [approved |-> FALSE, feedback |-> typed]

\* human_approval_callback of the command line client, for the choices 1
\* (approve) and 2 (reject); choice 3 raises and any other asks again.
human_approval_callback(choice, typed) ==
    IF choice = "1" THEN [approved |-> TRUE, feedback |-> None]
    ELSE [approved |-> FALSE,
          feedback |-> IF typed = "" THEN DefaultFeedback ELSE typed]

\* Mutant: the feedback is stored whatever the decision.
record_decision_with_feedback(approved, feedback) ==
    [plan_approved |-> approved, user_feedback |-> feedback]

\* stream_interactive: what it writes into the state for the decision.
record_decision(approved, feedback) ==
    [plan_approved |-> approved,
     user_feedback |-> IF approved THEN None ELSE feedback]

\* ------------------------------------------------------- conditional edges
\* Mutant: every query goes on to the planner.
should_continue_to_planner_always(query_type) == "planner"

should_continue_to_planner(query_type) ==
    IF IsSimple(query_type) THEN "END" ELSE "planner"

\* Mutant: the approved plan goes back to the planner, the other is searched.
should_continue_research_inverted(plan_approved) ==
    IF plan_approved THEN "planner" ELSE "researcher"

\* Mutant: the plan is searched whatever the decision.
should_continue_research_always(plan_approved) == "researcher"

\* Mutant: the plan goes back to the planner whatever the decision.
should_continue_research_replan(plan_approved) == "planner"

should_continue_research(plan_approved) ==
    IF ~plan_approved THEN "planner" ELSE "researcher"

\* Mutant: remaining work is looked at before sufficiency.
should_generate_report_tasks_first(iteration_count, max_iterations, sufficient, next_task) ==
    IF iteration_count >= max_iterations THEN "rapporteur"
    ELSE IF next_task # 0 THEN "researcher"
    ELSE "rapporteur"

\* Mutant: an insufficient context ends the loop.
should_generate_report_once(iteration_count, max_iterations, sufficient, next_task) ==
    IF iteration_count >= max_iterations THEN "rapporteur"
    ELSE IF sufficient THEN "rapporteur"
    ELSE "rapporteur"

\* Mutant: the loop is cut at twice the budget.
should_generate_report_twice(iteration_count, max_iterations, sufficient, next_task) ==
    IF iteration_count >= 2 * max_iterations THEN "rapporteur"
    ELSE IF sufficient THEN "rapporteur"
    ELSE IF next_task # 0 THEN "researcher"
    ELSE "rapporteur"

\* Mutant: an insufficient context keeps the loop going, tasks or not.
should_generate_report_loops(iteration_count, max_iterations, sufficient, next_task) ==
    IF iteration_count >= max_iterations THEN "rapporteur"
    ELSE IF sufficient THEN "rapporteur"
    ELSE "researcher"

\* Mutant: the cap compared with > instead of >=.
should_generate_report_gt(iteration_count, max_iterations, sufficient, next_task) ==
    IF iteration_count > max_iterations THEN "rapporteur"
    ELSE IF sufficient THEN "rapporteur"
    ELSE IF next_task # 0 THEN "researcher"
    ELSE "rapporteur"

should_generate_report(iteration_count, max_iterations, sufficient, next_task) ==
    IF iteration_count >= max_iterations THEN "rapporteur"
    ELSE IF sufficient THEN "rapporteur"
    ELSE IF next_task # 0 THEN "researcher"
    ELSE "rapporteur"

\* ------------------------------------------------------------------ state
VARIABLES
    \* the arguments of the run
    entry, max_iterations_arg, has_callback, cli_callback,
    \* the state dictionary built by initialize_research
    query_type, research_plan, plan_approved, research_results, current_task,
    iteration_count, max_iterations, final_report, current_step,
    needs_more_research, user_feedback, auto_approve, simple_response,
    \* the engine: the node the graph runs next, and stream_interactive's flag
    pc, approval_handled,
    \* history of the run, read by the properties only
    last_node, search_calls, callback_calls, planner_path, plan_cycles,
    last_response, modify_args, gate_decision, batches_produced, attempted,
    sufficiency, searched,
    \* the workflow object: the runs started on it, what its MemorySaver holds
    \* under each thread id, and the runs that ended suspended at the gate
    run_id, checkpoints, pending_runs,
    \* more history: what the approver gave as feedback, why the run failed,
    \* and the backend's raw answer to the classification prompt
    given_feedback, failure, raw_query_type

args == <<entry, max_iterations_arg, has_callback, cli_callback, auto_approve>>
fields == <<query_type, research_plan, plan_approved, research_results, current_task,
            iteration_count, max_iterations, final_report, current_step,
            needs_more_research, user_feedback, simple_response>>
history == <<last_node, search_calls, callback_calls, planner_path, plan_cycles,
             last_response, modify_args, gate_decision, batches_produced, attempted,
             sufficiency, searched>>
store == <<run_id, checkpoints, pending_runs>>
notes == <<given_feedback, failure, raw_query_type>>
vars == <<args, fields, pc, approval_handled, history, store, notes>>

\* config = {"configurable": {"thread_id": "1"}} of run, stream and
\* stream_interactive.
thread_id(run) == "1"

\* The node a checkpoint names as next: the graph stops before human_review,
\* and nothing follows END.
NextOf(node) ==
    CASE node = "interrupt" -> "human_review"
      [] node = "END" -> "none"
      [] OTHER -> node

\* MemorySaver.put: the latest checkpoint of a thread replaces the one before.
Put(saved, checkpoint) ==
    {c \in saved : c.thread_id # checkpoint.thread_id} \cup {checkpoint}

\* The checkpoint the engine writes when a step of the run has ended; a step
\* that raises writes none.
Save(run, node) ==
    checkpoints' =
        IF node = "failed" THEN checkpoints
        ELSE Put(checkpoints,
                 [thread_id |-> thread_id(run), run |-> run, next |-> NextOf(node)])

\* Mutant: the stage whose backend call failed is run again.
generate_raises_retried(stage) == stage

\* Where the run stands when llm.generate raises in a stage: generate has no
\* handler and no retry, and neither has the stage that called it.
generate_raises(stage) == "failed"

Entries == {"run", "stream", "stream_interactive"}
Feedbacks == {None, "", "add more sources"}
BackendResponses == Responses(BackendPlans)

\* What the approval callback returns, and what the approver gave it as
\* feedback: the client's callback, or any other callable.
CallbackReturns(cli) ==
    IF cli
    THEN {[approved |-> human_approval_callback("1", "").approved,
           feedback |-> human_approval_callback("1", "").feedback,
           given |-> Missing]}
         \cup
         {[approved |-> human_approval_callback("2", typed).approved,
           feedback |-> human_approval_callback("2", typed).feedback,
           given |-> Some(typed)] : typed \in TypedFeedbacks}
    ELSE {[approved |-> a, feedback |-> f, given |-> Some(f)] :
             a \in BOOLEAN, f \in Feedbacks}

\* The state dictionary of initialize_research before classification.
Init ==
    /\ entry = "run" /\ max_iterations_arg = 0 /\ has_callback = FALSE
    /\ cli_callback = FALSE
    /\ auto_approve = FALSE
    /\ query_type = None
    /\ research_plan = Missing
    /\ plan_approved = FALSE
    /\ research_results = <<>>
    /\ current_task = 0
    /\ iteration_count = 0
    /\ max_iterations = DefaultMaxIterations
    /\ final_report = None
    /\ current_step = "initializing"
    /\ needs_more_research = TRUE
    /\ user_feedback = None
    /\ simple_response = None
    /\ pc = "idle"
    /\ approval_handled = FALSE
    /\ last_node = "none" /\ search_calls = 0 /\ callback_calls = 0
    /\ planner_path = "none" /\ plan_cycles = 0 /\ last_response = Missing
    /\ modify_args = Missing /\ gate_decision = "none" /\ batches_produced = 0
    /\ attempted = <<>> /\ sufficiency = "none" /\ searched = <<>>
    /\ run_id = 0 /\ checkpoints = {} /\ pending_runs = {}
    /\ given_feedback = Missing /\ failure = "none" /\ raw_query_type = None

\* run / stream / stream_interactive up to the start of the graph:
\* initialize_research, then the caller's max_iterations if it is truthy.
\* m = 0 stands for max_iterations=None.
Begin ==
    \E e \in Entries, m \in 0..MaxCallerIter, auto \in BOOLEAN, cb \in BOOLEAN,
       cli \in BOOLEAN, text \in ClassifyOutputs, llm_ok \in BOOLEAN :
        /\ cb => e = "stream_interactive"
        /\ cli => cb
        /\ entry' = e /\ max_iterations_arg' = m /\ has_callback' = cb
        /\ cli_callback' = cli
        /\ given_feedback' = Missing
        /\ failure' = IF llm_ok THEN "none" ELSE "backend"
        /\ raw_query_type' = IF llm_ok THEN text ELSE None
        /\ auto_approve' = auto
        /\ run_id' = run_id + 1
        /\ research_plan' = Missing
        /\ plan_approved' = FALSE
        /\ research_results' = <<>>
        /\ current_task' = 0
        /\ iteration_count' = 0
        /\ final_report' = None
        /\ user_feedback' = None
        /\ approval_handled' = FALSE
        /\ last_node' = "none" /\ search_calls' = 0 /\ callback_calls' = 0
        /\ planner_path' = "none" /\ plan_cycles' = 0 /\ last_response' = Missing
        /\ modify_args' = Missing /\ gate_decision' = "none" /\ batches_produced' = 0
        /\ attempted' = <<>> /\ sufficiency' = "none" /\ searched' = <<>>
        /\ IF llm_ok
           THEN /\ pc' = "coordinator"
                /\ query_type' = classify_query(text)
                /\ max_iterations' = IF m # 0 THEN m ELSE DefaultMaxIterations
                /\ simple_response' =
                       IF IsSimple(classify_query(text)) THEN "response" ELSE None
                /\ current_step' =
                       IF IsSimple(classify_query(text)) THEN "completed"
                       ELSE "initializing"
                /\ needs_more_research' = ~IsSimple(classify_query(text))
           ELSE /\ pc' = generate_raises("idle")   \* the classification call raises
                /\ query_type' = None
                /\ max_iterations' = DefaultMaxIterations
                /\ simple_response' = None
                /\ current_step' = "initializing"
                /\ needs_more_research' = TRUE
        /\ Save(run_id', pc')

\* The first run on a new ResearchWorkflow.
Start ==
    /\ pc = "idle"
    /\ Begin
    /\ UNCHANGED pending_runs

\* A later run on the same ResearchWorkflow, started when the run before it
\* has ended.
Restart ==
    /\ pc \in {"END", "suspended", "failed", "cancelled"}
    /\ run_id < MaxRuns
    /\ Begin
    /\ pending_runs' = IF pc = "suspended" /\ query_type = "RESEARCH"
                       THEN pending_runs \cup {run_id} ELSE pending_runs

coordinator_node ==
    /\ pc = "coordinator"
    /\ current_step' = IF IsSimple(query_type) THEN "completed" ELSE "planning"
    /\ pc' = should_continue_to_planner(query_type)
    /\ last_node' = "coordinator"
    /\ UNCHANGED <<args, query_type, research_plan, plan_approved, research_results,
                   current_task, iteration_count, max_iterations, final_report,
                   needs_more_research, user_feedback, simple_response,
                   approval_handled, search_calls, callback_calls, planner_path,
                   plan_cycles, last_response, modify_args, gate_decision,
                   batches_produced, attempted, sufficiency,
                   searched>>
    /\ Save(run_id, pc')
    /\ UNCHANGED <<run_id, pending_runs>>
    /\ UNCHANGED notes

\* planner_node, then the edge to human_review, before which the graph
\* is compiled to interrupt.
planner_node ==
    /\ pc = "planner"
    /\ current_step' = "planning"
    /\ last_node' = "planner"
    /\ LET path == planner_node_path(user_feedback, research_plan) IN
       \/ /\ path = "create"
          /\ \E resp \in BackendResponses :
               /\ research_plan' = create_research_plan(resp, max_iterations).research_plan
               /\ max_iterations' = create_research_plan(resp, max_iterations).max_iterations
               /\ last_response' = Some(Shape(resp))
          /\ planner_path' = "create" /\ plan_cycles' = plan_cycles + 1
          /\ pc' = "interrupt"
          /\ UNCHANGED modify_args
       \/ /\ path = "modify"
          /\ \E resp \in BackendResponses :
               /\ research_plan' = modify_plan(research_plan, resp)
               /\ last_response' = Some(Shape(resp))
          /\ modify_args' = Some(user_feedback)
          /\ planner_path' = "modify" /\ plan_cycles' = plan_cycles + 1
          /\ pc' = "interrupt"
          /\ UNCHANGED max_iterations
       \/ /\ path = "keep"
          /\ planner_path' = "keep"
          /\ pc' = "interrupt"
          /\ UNCHANGED <<research_plan, max_iterations, last_response, modify_args,
                         plan_cycles>>
       \/ /\ path # "keep"          \* llm.generate raises
          /\ planner_path' = path
          /\ modify_args' = IF path = "modify" THEN Some(user_feedback) ELSE modify_args
          /\ last_response' = Missing
          /\ pc' = generate_raises("planner")
          /\ UNCHANGED <<research_plan, max_iterations, plan_cycles>>
    /\ UNCHANGED <<args, query_type, plan_approved, research_results, current_task,
                   iteration_count, final_report, needs_more_research, user_feedback,
                   simple_response, approval_handled, search_calls, callback_calls,
                   gate_decision, batches_produced, attempted, sufficiency,
                   searched>>
    /\ Save(run_id, pc')
    /\ UNCHANGED <<run_id, pending_runs>>
    /\ failure' = IF planner_path' # "keep" /\ last_response' = Missing
                   THEN "backend" ELSE failure
    /\ UNCHANGED <<given_feedback, raw_query_type>>

\* ---------------------------------------------------- the interrupt (gate)
\* graph.invoke / graph.stream end at the interrupt before human_review.  run
\* and stream return there; stream_interactive handles the first interrupt
\* and returns at the second one.
\* Mutant: every interrupt of a run is put to the approver.
handles_interrupt_always(e, handled) == e = "stream_interactive"

\* if "__interrupt__" in output and not approval_handled, which only
\* stream_interactive tests.
handles_interrupt(e, handled) == e = "stream_interactive" /\ ~handled

stream_ends ==
    /\ pc = "interrupt"
    /\ ~handles_interrupt(entry, approval_handled)
    /\ pc' = "suspended"
    /\ UNCHANGED <<args, fields, approval_handled, history>>
    /\ UNCHANGED store
    /\ UNCHANGED notes

\* stream_interactive at the first interrupt with auto_approve.
gate_auto_approve ==
    /\ pc = "interrupt" /\ handles_interrupt(entry, approval_handled)
    /\ research_plan # Missing
    /\ auto_approve
    /\ plan_approved' = TRUE
    /\ user_feedback' = None
    /\ gate_decision' = "auto"
    /\ approval_handled' = TRUE
    /\ pc' = "human_review"
    /\ UNCHANGED <<args, query_type, research_plan, research_results, current_task,
                   iteration_count, max_iterations, final_report, current_step,
                   needs_more_research, simple_response, last_node, search_calls,
                   callback_calls, planner_path, plan_cycles, last_response,
                   modify_args, batches_produced, attempted, sufficiency,
                   searched>>
    /\ Save(run_id, pc')
    /\ UNCHANGED <<run_id, pending_runs>>
    /\ UNCHANGED notes

\* stream_interactive at the first interrupt: human_approval_callback returns
\* (approved, feedback) and the decision is written with update_state.
gate_callback ==
    /\ pc = "interrupt" /\ handles_interrupt(entry, approval_handled)
    /\ research_plan # Missing
    /\ ~auto_approve /\ has_callback /\ ~plan_approved
    /\ \E r \in CallbackReturns(cli_callback) :
        /\ plan_approved' = record_decision(r.approved, r.feedback).plan_approved
        /\ user_feedback' = record_decision(r.approved, r.feedback).user_feedback
        /\ gate_decision' = IF r.approved THEN "approve" ELSE "reject"
        /\ given_feedback' = r.given
    /\ current_step' = "awaiting_approval"
    /\ callback_calls' = callback_calls + 1
    /\ approval_handled' = TRUE
    /\ pc' = "human_review"
    /\ UNCHANGED <<args, query_type, research_plan, research_results, current_task,
                   iteration_count, max_iterations, final_report,
                   needs_more_research, simple_response, last_node, search_calls,
                   planner_path, plan_cycles, last_response, modify_args,
                   batches_produced, attempted, sufficiency,
                   searched>>
    /\ Save(run_id, pc')
    /\ UNCHANGED <<run_id, pending_runs>>
    /\ UNCHANGED <<failure, raw_query_type>>

\* human_approval_callback raises KeyboardInterrupt: nothing is written.
gate_cancel ==
    /\ pc = "interrupt" /\ handles_interrupt(entry, approval_handled)
    /\ research_plan # Missing
    /\ ~auto_approve /\ has_callback /\ ~plan_approved
    /\ callback_calls' = callback_calls + 1
    /\ gate_decision' = "cancel"
    /\ pc' = "cancelled"
    /\ UNCHANGED <<args, fields, approval_handled, last_node, search_calls,
                   planner_path, plan_cycles, last_response, modify_args,
                   batches_produced, attempted, sufficiency,
                   searched>>
    /\ UNCHANGED store
    /\ UNCHANGED notes

\* stream_interactive at the first interrupt with neither auto_approve nor a
\* callback: the graph is resumed with the state as it is.
gate_skip ==
    /\ pc = "interrupt" /\ handles_interrupt(entry, approval_handled)
    /\ \/ research_plan = Missing
       \/ ~auto_approve /\ ~(has_callback /\ ~plan_approved)
    /\ gate_decision' = "skipped"
    /\ approval_handled' = TRUE
    /\ pc' = "human_review"
    /\ UNCHANGED <<args, fields, last_node, search_calls, callback_calls,
                   planner_path, plan_cycles, last_response, modify_args,
                   batches_produced, attempted, sufficiency,
                   searched>>
    /\ UNCHANGED store
    /\ UNCHANGED notes

human_review_node ==
    /\ pc = "human_review"
    /\ current_step' = "awaiting_approval"
    /\ plan_approved' = IF auto_approve THEN TRUE ELSE plan_approved
    /\ pc' = should_continue_research(plan_approved')
    /\ last_node' = "human_review"
    /\ UNCHANGED <<args, query_type, research_plan, research_results, current_task,
                   iteration_count, max_iterations, final_report,
                   needs_more_research, user_feedback, simple_response,
                   approval_handled, search_calls, callback_calls, planner_path,
                   plan_cycles, last_response, modify_args, gate_decision,
                   batches_produced, attempted, sufficiency,
                   searched>>
    /\ Save(run_id, pc')
    /\ UNCHANGED <<run_id, pending_runs>>
    /\ UNCHANGED notes

\* ------------------------------------------------------------ research loop
\* The node that follows researcher_node: should_generate_report on the state
\* the node returned; the backend call of the sufficiency check may raise.
AfterResearcher(results, iteration, plan, answer, llm_ok) ==
    IF ConsultsBackend(results, iteration, max_iterations) /\ ~llm_ok
    THEN "failed"
    ELSE should_generate_report(
             iteration, max_iterations,
             evaluate_context_sufficiency(results, iteration, max_iterations, answer),
             get_next_task(plan))

\* What should_generate_report learns from evaluate_context_sufficiency: it
\* does not call it once the cap is reached, and the backend call may raise.
SufficiencyOutcome(results, iteration, plan, answer, llm_ok) ==
    IF iteration >= max_iterations THEN "not evaluated"
    ELSE IF ConsultsBackend(results, iteration, max_iterations) /\ ~llm_ok THEN "raised"
    ELSE IF evaluate_context_sufficiency(results, iteration, max_iterations, answer)
         THEN "sufficient"
         ELSE "insufficient"

researcher_node ==
    /\ pc = "researcher"
    /\ current_step' = "researching"
    /\ last_node' = "researcher"
    /\ search_calls' = search_calls + 1
    /\ LET next_task == get_next_task(research_plan) IN
       \E answer \in SufficiencyOutputs, llm_ok \in BOOLEAN :
       IF next_task # 0
       THEN LET task == research_plan[1].sub_tasks[next_task] IN
            \E outcomes \in [1..task.pairs -> SearchOutcomes] :
            LET done == execute_task(research_plan, research_results, task, outcomes) IN
            /\ iteration_count' = next_iteration_count(iteration_count, task)
            /\ attempted' = Append(attempted, next_task)
            /\ searched' = IF execute_task_raises(task) THEN <<>> ELSE outcomes
            /\ IF execute_task_raises(task)
               THEN /\ pc' = "failed"
                    /\ sufficiency' = "not evaluated"
                    /\ UNCHANGED <<research_results, research_plan, current_task,
                                   batches_produced>>
               ELSE /\ research_results' = done.research_results
                    /\ research_plan' = done.research_plan
                    /\ current_task' = next_task
                    /\ batches_produced' = batches_produced +
                           Cardinality({k \in 1..task.pairs : outcomes[k] # "unsupported"})
                    /\ pc' = AfterResearcher(done.research_results, iteration_count',
                                             done.research_plan, answer, llm_ok)
                    /\ sufficiency' = SufficiencyOutcome(done.research_results,
                           iteration_count', done.research_plan, answer, llm_ok)
            /\ UNCHANGED needs_more_research
       ELSE /\ needs_more_research' = FALSE
            /\ pc' = AfterResearcher(research_results, iteration_count, research_plan,
                                     answer, llm_ok)
            /\ sufficiency' = SufficiencyOutcome(research_results, iteration_count,
                                                 research_plan, answer, llm_ok)
            /\ searched' = <<>>
            /\ UNCHANGED <<research_results, research_plan, current_task,
                           iteration_count, batches_produced, attempted>>
    /\ UNCHANGED <<args, query_type, plan_approved, max_iterations, final_report,
                   user_feedback, simple_response, approval_handled, callback_calls,
                   planner_path, plan_cycles, last_response, modify_args,
                   gate_decision>>
    /\ Save(run_id, pc')
    /\ UNCHANGED <<run_id, pending_runs>>
    /\ failure' =
          LET next_task == get_next_task(research_plan) IN
          IF pc' # "failed" THEN failure
          ELSE IF next_task # 0 /\ execute_task_raises(research_plan[1].sub_tasks[next_task])
               THEN "KeyError"
               ELSE "backend"
    /\ UNCHANGED <<given_feedback, raw_query_type>>

\* Mutant: the report is followed by another search.
rapporteur_edge_loops == "researcher"

\* workflow.add_edge("rapporteur", END)
rapporteur_edge == "END"

rapporteur_node ==
    /\ pc = "rapporteur"
    /\ last_node' = "rapporteur"
    /\ \E llm_ok \in BOOLEAN :
       LET done == generate_report(research_plan, research_results, llm_ok) IN
       IF done.raises = "none"
       THEN /\ final_report' = done.final_report
            /\ current_step' = "completed"
            /\ pc' = rapporteur_edge
            /\ failure' = failure
       ELSE /\ current_step' = "generating_report"
            /\ pc' = generate_raises("rapporteur")
            /\ failure' = done.raises
            /\ UNCHANGED final_report
    /\ UNCHANGED <<args, query_type, research_plan, plan_approved, research_results,
                   current_task, iteration_count, max_iterations,
                   needs_more_research, user_feedback, simple_response,
                   approval_handled, search_calls, callback_calls, planner_path,
                   plan_cycles, last_response, modify_args, gate_decision,
                   batches_produced, attempted, sufficiency,
                   searched>>
    /\ Save(run_id, pc')
    /\ UNCHANGED <<run_id, pending_runs>>
    /\ UNCHANGED <<given_feedback, raw_query_type>>

Next ==
    \/ Start
    \/ coordinator_node
    \/ planner_node
    \/ stream_ends
    \/ gate_auto_approve
    \/ gate_callback
    \/ gate_cancel
    \/ gate_skip
    \/ human_review_node
    \/ researcher_node
    \/ rapporteur_node

Spec == Init /\ [][Next]_vars

\* ------------------------------------------- several runs on one workflow
NextRuns ==
    \/ Start
    \/ Restart
    \/ coordinator_node
    \/ planner_node
    \/ stream_ends
    \/ gate_auto_approve
    \/ gate_callback
    \/ gate_cancel
    \/ gate_skip
    \/ human_review_node
    \/ researcher_node
    \/ rapporteur_node

SpecRuns == Init /\ [][NextRuns]_vars

\* ------------------------------------------------ study of the research loop
\* The state in which stream_interactive enters the researcher node: the plan
\* the backend wrote was approved through the callback.
LoopEntry(p) ==
    /\ entry = "stream_interactive" /\ max_iterations_arg = 0 /\ has_callback = TRUE
    /\ cli_callback = TRUE
    /\ auto_approve = FALSE
    /\ query_type = "RESEARCH"
    /\ research_plan = Some(p)
    /\ max_iterations = Get(p.estimated_iterations, DefaultEstimatedIterations)
    /\ plan_approved = TRUE
    /\ research_results = <<>>
    /\ current_task = 0
    /\ iteration_count = 0
    /\ final_report = None
    /\ current_step = "awaiting_approval"
    /\ needs_more_research = TRUE
    /\ user_feedback = None
    /\ simple_response = None
    /\ pc = "researcher"
    /\ approval_handled = TRUE
    /\ last_node = "human_review" /\ search_calls = 0 /\ callback_calls = 1
    /\ planner_path = "create" /\ plan_cycles = 1
    /\ last_response = Some([open |-> 0, close |-> 1, parses |-> TRUE])
    /\ modify_args = Missing /\ gate_decision = "approve" /\ batches_produced = 0
    /\ attempted = <<>> /\ sufficiency = "none" /\ searched = <<>>
    /\ run_id = 1 /\ pending_runs = {}
    /\ given_feedback = Missing /\ failure = "none" /\ raw_query_type = "Research"
    /\ checkpoints = {[thread_id |-> thread_id(1), run |-> 1, next |-> "researcher"]}

InitLoop == \E p \in QueuePlans : LoopEntry(p)

NextLoop ==
    \/ researcher_node
    \/ rapporteur_node

SpecLoop == InitLoop /\ [][NextLoop]_vars

\* ------------------------------------------------------- study of one task
InitTask == \E p \in TaskPlans : LoopEntry(p)

SpecTask == InitTask /\ [][NextLoop]_vars

\* ------------------------------------------------------ study of the report
\* Results handed to the rapporteur: none, a batch, a batch with an error.
ReportResults ==
    {<<>>,
     <<[task_id |-> 1, pair |-> 1, error |-> FALSE]>>,
     <<[task_id |-> 1, pair |-> 1, error |-> TRUE]>>}

\* A state handed to generate_report, with or without a plan.
ReportEntry(plan, results) ==
    /\ entry = "stream_interactive" /\ max_iterations_arg = 0 /\ has_callback = TRUE
    /\ cli_callback = TRUE
    /\ auto_approve = FALSE
    /\ query_type = "RESEARCH"
    /\ research_plan = plan
    /\ max_iterations = DefaultMaxIterations
    /\ plan_approved = (plan # Missing)
    /\ research_results = results
    /\ current_task = 0
    /\ iteration_count = Len(results)
    /\ final_report = None
    /\ current_step = "researching"
    /\ needs_more_research = TRUE
    /\ user_feedback = None
    /\ simple_response = None
    /\ pc = "rapporteur"
    /\ approval_handled = TRUE
    /\ last_node = "researcher" /\ search_calls = Len(results) /\ callback_calls = 0
    /\ planner_path = "none" /\ plan_cycles = 0
    /\ last_response = Missing
    /\ modify_args = Missing /\ gate_decision = "none"
    /\ batches_produced = Len(results)
    /\ attempted = <<>> /\ sufficiency = "none" /\ searched = <<>>
    /\ run_id = 1 /\ pending_runs = {}
    /\ checkpoints = {[thread_id |-> thread_id(1), run |-> 1, next |-> "rapporteur"]}
    /\ given_feedback = Missing /\ failure = "none" /\ raw_query_type = "Research"

InitReport ==
    \E plan \in {Missing} \cup {Some(p) : p \in QueuePlans}, results \in ReportResults :
        ReportEntry(plan, results)

NextReport == rapporteur_node

SpecReport == InitReport /\ [][NextReport]_vars

\* ================================================================ properties
IsPrefix(a, b) == Len(a) <= Len(b) /\ SubSeq(b, 1, Len(a)) = a

Pending(plan) == {i \in DOMAIN plan.sub_tasks : plan.sub_tasks[i].status = "pending"}

\* C1: whenever the decision after a researcher_node invocation is evaluated
\* with iteration_count >= max_iterations, the next node is the rapporteur,
\* whatever the sufficiency answer and whether or not pending tasks remain.
C1_CapGoesToReport ==
    (last_node = "researcher" /\ pc # "failed" /\ iteration_count >= max_iterations)
        => pc = "rapporteur"

\* C1 witness: the cap sends the run to the report while a task is pending.
C1_Witness ==
    /\ last_node = "researcher" /\ pc = "rapporteur"
    /\ iteration_count >= max_iterations
    /\ get_next_task(research_plan) # 0

\* C2: a run started with max_iterations = M performs at most M researcher_node
\* invocations, and with M = 1 a run that reports has performed exactly one.
C2_CallerBudgetBoundsSearch ==
    max_iterations_arg # 0 =>
        /\ search_calls <= max_iterations_arg
        /\ (max_iterations_arg = 1 /\ final_report # None) => search_calls = 1

\* C3 as stated: every researcher_node invocation, also one that finds no
\* pending task, increases iteration_count by exactly 1, and no other node
\* changes it.
C3_EveryInvocationCounts ==
    [][/\ pc = "researcher" => iteration_count' = iteration_count + 1
       /\ pc # "researcher" => iteration_count' = iteration_count]_vars

\* C3 amended: a researcher_node invocation that finds a pending task
\* increases iteration_count by exactly 1, whatever the number of pairs of
\* the task; one that finds none leaves it; no other node changes it.
C3_TaskAttemptCounts ==
    [][/\ (pc = "researcher" /\ get_next_task(research_plan) # 0)
            => iteration_count' = iteration_count + 1
       /\ (pc = "researcher" /\ get_next_task(research_plan) = 0)
            => iteration_count' = iteration_count
       /\ pc # "researcher" => iteration_count' = iteration_count]_vars

\* C3 witness: a task without any (query, source) pair was attempted and
\* counted once.
C3_Witness ==
    /\ last_node = "researcher" /\ iteration_count = 1 /\ search_calls = 1
    /\ research_plan[1].sub_tasks[attempted[1]].pairs = 0
    /\ research_results = <<>>

\* C4: research_results only grows at its end, and its length is the number
\* of batches the searches of all researcher_node invocations produced.
C4_ResultsAppendOnly ==
    /\ [](Len(research_results) = batches_produced)
    /\ [][IsPrefix(research_results, research_results')]_vars

\* C4 witness: two invocations have appended batches.
C4_Witness ==
    /\ Len(attempted) >= 2 /\ Len(research_results) >= 2
    /\ research_results[1].task_id # research_results[Len(research_results)].task_id

\* C5: get_next_task returns a pending task with the smallest (priority, id),
\* a missing priority counting 99 and a missing id 0; it returns None exactly
\* when no task is pending; the tasks returned to successive researcher_node
\* invocations come in non-decreasing (priority, id) order.
C5_Key(t) ==
    <<IF t.priority = Missing THEN 99 ELSE t.priority[1],
      IF t.task_id = Missing THEN 0 ELSE t.task_id[1]>>

C5_Less(a, b) == a[1] < b[1] \/ (a[1] = b[1] /\ a[2] < b[2])

C5_NextTaskOrder ==
    research_plan # Missing =>
        LET plan == research_plan[1]
            tasks == plan.sub_tasks
            next == get_next_task(research_plan)
        IN /\ next = 0 <=> Pending(plan) = {}
           /\ next # 0 =>
                /\ next \in Pending(plan)
                /\ \A j \in Pending(plan) : ~C5_Less(C5_Key(tasks[j]), C5_Key(tasks[next]))
           /\ \A a, b \in DOMAIN attempted :
                a < b => ~C5_Less(C5_Key(tasks[attempted[b]]), C5_Key(tasks[attempted[a]]))

\* C5 witness: a task with a priority was returned before one without, which
\* stands earlier in the plan.
C5_Witness ==
    /\ Len(attempted) = 2
    /\ attempted[2] < attempted[1]
    /\ research_plan[1].sub_tasks[attempted[2]].priority = Missing
    /\ research_plan[1].sub_tasks[attempted[1]].priority # Missing
    /\ get_next_task(research_plan) = 0

\* C6: with auto_approve no run of a research query stops at the gate, and
\* the approval callback is never invoked.
C6_AutoApproveNeverSuspends ==
    (auto_approve /\ query_type = "RESEARCH")
        => (pc # "suspended" /\ callback_calls = 0)

\* C7: in an interactive run without auto_approve the approver is consulted
\* about every plan the planner created or revised: past the gate, and when
\* the run has ended, there have been as many consultations as planning cycles.
C7_ApproverAskedEachCycle ==
    (/\ entry = "stream_interactive" /\ has_callback /\ ~auto_approve
     /\ pc \in {"human_review", "researcher", "rapporteur", "END", "suspended"})
        => callback_calls = plan_cycles

\* C8: an interactive run of a research query that was not cancelled and
\* whose backend calls succeeded ends completed, with a report.
C8_ApprovedRunCompletes ==
    (/\ query_type = "RESEARCH"
     /\ entry = "stream_interactive" /\ has_callback /\ ~auto_approve
     /\ pc \in {"END", "suspended"})
        => (current_step = "completed" /\ final_report # None)

\* C9: after a rejection with non-empty feedback the node after human_review
\* is the planner, and the planner, once it has run again, has taken the
\* revision path: modify_plan was called with the feedback.
C9_RejectionRevises ==
    (gate_decision = "reject" /\ Truthy(user_feedback)) =>
        /\ last_node = "human_review" => pc = "planner"
        /\ (last_node = "planner" /\ pc # "human_review") =>
              (planner_path = "modify" /\ modify_args = Some(user_feedback))

\* C9 witness: the planner has revised the plan with the approver's feedback.
C9_Witness ==
    /\ gate_decision = "reject" /\ last_node = "planner"
    /\ planner_path = "modify" /\ modify_args = Some("add more sources")
    /\ pc = "interrupt"

\* C10: plan creation leaves a plan, and on a response without object
\* delimiters or whose delimited text does not parse it neither fails nor
\* leaves anything but the fallback plan: one pending task, 2 iterations.
C10_Malformed(shape) == shape.open = -1 \/ shape.close = -1 \/ ~shape.parses

C10_CreationFallsBack ==
    (last_node = "planner" /\ planner_path = "create" /\ last_response # Missing) =>
        /\ research_plan # Missing
        /\ C10_Malformed(last_response[1]) =>
              /\ pc # "failed"
              /\ Len(research_plan[1].sub_tasks) = 1
              /\ research_plan[1].sub_tasks[1].status = "pending"
              /\ research_plan[1].estimated_iterations = Some(2)

\* C10 witness: braces were found but the text between them did not parse.
C10_Witness ==
    /\ last_node = "planner" /\ planner_path = "create"
    /\ last_response = Some([open |-> 0, close |-> 1, parses |-> FALSE])
    /\ research_plan = Some(create_fallback_plan)

\* C11: a revision whose backend response has no object delimiters or does
\* not parse leaves research_plan equal to the plan before the call, and the
\* planner node ends normally (the run goes on to the interrupt).
C11_Unparsable(shape) == shape.open = -1 \/ shape.close < shape.open \/ ~shape.parses

C11_RevisionKeepsPlan ==
    [][(/\ pc = "planner" /\ planner_path' = "modify"
        /\ last_response' # Missing /\ C11_Unparsable(last_response'[1]))
          => (research_plan' = research_plan /\ pc' = "interrupt")]_vars

\* C11 witness: a plan of two tasks has survived a revision whose response
\* did not parse.
C11_Witness ==
    /\ last_node = "planner" /\ planner_path = "modify" /\ plan_cycles = 2
    /\ last_response = Some([open |-> 0, close |-> 1, parses |-> FALSE])
    /\ Len(research_plan[1].sub_tasks) = 2
    /\ pc = "interrupt"

\* C12: a query classified GREETING or INAPPROPRIATE ends the run right after
\* the coordinator node with current_step = completed, a simple response,
\* needs_more_research false, no results, no plan and no report; the planner,
\* the gate, the researcher and the rapporteur are never entered.
C12_ShortCircuitState ==
    IsSimple(query_type) =>
        /\ pc \in {"coordinator", "END"}
        /\ current_step = "completed" /\ simple_response # None
        /\ ~needs_more_research
        /\ research_results = <<>> /\ research_plan = Missing /\ final_report = None
        /\ last_node = (IF pc = "END" THEN "coordinator" ELSE "none")
        /\ plan_cycles = 0 /\ callback_calls = 0 /\ search_calls = 0
        /\ gate_decision = "none"

C12_SimpleShortCircuit ==
    /\ []C12_ShortCircuitState
    /\ [][(IsSimple(query_type) /\ pc = "coordinator") => pc' = "END"]_vars

\* C12 witness: the run of an inappropriate query has ended.
C12_Witness ==
    /\ query_type = "INAPPROPRIATE" /\ pc = "END" /\ last_node = "coordinator"
    /\ current_step = "completed" /\ simple_response # None

\* C13: after a researcher_node invocation that leaves iteration_count below
\* max_iterations, a sufficiency check that answers sufficient sends the run
\* to the rapporteur, also when get_next_task would return a pending task.
C13_SufficiencyBeforeTasks ==
    (last_node = "researcher" /\ sufficiency = "sufficient") =>
        (iteration_count < max_iterations /\ pc = "rapporteur")

\* C13 witness: the context was judged sufficient below the cap while a task
\* was pending, and the rapporteur is next.
C13_Witness ==
    /\ last_node = "researcher" /\ sufficiency = "sufficient"
    /\ iteration_count < max_iterations
    /\ get_next_task(research_plan) # 0
    /\ pc = "rapporteur"

\* C14: after a researcher_node invocation that leaves iteration_count below
\* max_iterations and a sufficiency check that answers insufficient, the next
\* node is the researcher if get_next_task returns a pending task and the
\* rapporteur if it returns none.
C14_InsufficientLoopsOnTasks ==
    (last_node = "researcher" /\ sufficiency = "insufficient") =>
        /\ iteration_count < max_iterations
        /\ pc = (IF get_next_task(research_plan) # 0 THEN "researcher" ELSE "rapporteur")

\* C14 witness: the backend judged the collected results insufficient below
\* the cap, a task is pending, and the researcher is next.
C14_Witness ==
    /\ last_node = "researcher" /\ sufficiency = "insufficient"
    /\ research_results # <<>> /\ iteration_count < max_iterations
    /\ get_next_task(research_plan) # 0
    /\ pc = "researcher"

\* C15: with an approved plan the research loop ends, whatever the
\* sufficiency answers and search outcomes: a researcher_node invocation
\* either hands over to the rapporteur (or fails the run, when a task has no
\* id or the backend raises) or brings iteration_count one closer to an
\* unchanged max_iterations, staying below it; the invocations number at most
\* max_iterations (one for a budget below 1).
C15_Budget == IF max_iterations >= 1 THEN max_iterations ELSE 1

C16_Batches(id, k) ==
    {i \in DOMAIN research_results :
        research_results[i].task_id = id /\ research_results[i].pair = k}

C16_SearchFailureContained ==
    (last_node = "researcher" /\ attempted # <<>>) =>
        LET task == research_plan[1].sub_tasks[attempted[Len(attempted)]] IN
        /\ Len(searched) = task.pairs
        /\ \A k \in 1..task.pairs :
              /\ searched[k] = "raises" =>
                    \E i \in C16_Batches(task.task_id[1], k) : research_results[i].error
              /\ searched[k] = "found" =>
                    \E i \in C16_Batches(task.task_id[1], k) : ~research_results[i].error
        /\ task.status = "completed"
        /\ pc = "failed" => sufficiency = "raised"

\* C16 witness: the first search of a task raised, the second one succeeded,
\* both left a batch, the task is completed and the next task is due.
C16_Witness ==
    /\ last_node = "researcher" /\ searched = <<"raises", "found">>
    /\ Len(research_results) = 2
    /\ research_results[1].error /\ ~research_results[2].error
    /\ research_plan[1].sub_tasks[1].status = "completed"
    /\ pc = "researcher"

\* C17: when the approval callback cancels, the run is over: no node runs
\* any more, there is no report, and the workflow's checkpointer holds no
\* checkpoint of the run from which it could be resumed.
C17_CancelLeavesNoCheckpoint ==
    pc = "cancelled" =>
        /\ final_report = None /\ last_node = "planner" /\ search_calls = 0
        /\ ~\E c \in checkpoints : c.run = run_id /\ c.next # "none"

\* C18: the checkpoint of a run that stands suspended at the gate is kept
\* under that run's thread id whatever other runs are started on the
\* workflow: no other run overwrites it.
C18_RunsIsolated ==
    \A r \in pending_runs :
        \E c \in checkpoints :
            c.thread_id = thread_id(r) /\ c.run = r /\ c.next = "human_review"

\* C19: from the interrupt, an approval (by the callback or by auto_approve)
\* and the resumed graph leave research_plan, research_results and
\* iteration_count as they were checkpointed, and lead through human_review
\* to the researcher; once the plan is approved neither the coordinator nor
\* the planner runs again.
C19_ResumeContinues ==
    /\ [][(pc \in {"interrupt", "human_review"} /\ gate_decision' \in {"approve", "auto"})
            => /\ research_plan' = research_plan
               /\ research_results' = research_results
               /\ iteration_count' = iteration_count
               /\ pc' = (IF pc = "interrupt" THEN "human_review" ELSE "researcher")]_vars
    /\ [](gate_decision \in {"approve", "auto"} =>
            /\ pc \notin {"coordinator", "planner", "interrupt", "suspended"}
            /\ last_node \notin {"none", "coordinator"}
            /\ last_node = "planner" => pc = "human_review"
            /\ plan_cycles = 1)

\* C19 witness: the callback approved a plan of two tasks and the resumed
\* graph stands before the researcher with that plan, nothing searched yet.
C19_Witness ==
    /\ gate_decision = "approve" /\ last_node = "human_review" /\ pc = "researcher"
    /\ plan_cycles = 1 /\ Len(research_plan[1].sub_tasks) = 2
    /\ research_results = <<>> /\ iteration_count = 0

\* C20: after a planner_node invocation that stored a plan parsed from the
\* backend response, on creation or on revision, every sub-task of the plan
\* has status pending.
C20_ParsedPlanPending ==
    (/\ last_node = "planner" /\ planner_path \in {"create", "modify"}
     /\ last_response # Missing /\ HasObject(last_response[1])
     /\ last_response[1].parses)
        => \A i \in DOMAIN research_plan[1].sub_tasks :
               research_plan[1].sub_tasks[i].status = "pending"

C22_ApproveGoesToResearch ==
    gate_decision = "approve" =>
        /\ plan_approved /\ user_feedback = None
        /\ pc = "human_review" => current_step = "awaiting_approval"
        /\ last_node = "human_review" =>
              (pc = "researcher" /\ current_step = "awaiting_approval")
        /\ last_node = "researcher" => current_step = "researching"

\* C22 witness: a callback approved and returned a feedback text with the
\* approval; the text was dropped and the researcher is next.
C22_Witness ==
    /\ gate_decision = "approve" /\ given_feedback = Some("add more sources")
    /\ plan_approved /\ user_feedback = None
    /\ last_node = "human_review" /\ pc = "researcher"

\* C23: whatever the backend answers to the classification prompt, query_type
\* is GREETING, INAPPROPRIATE or RESEARCH: the answer itself, trimmed and in
\* upper case, if that is one of the three, and RESEARCH otherwise.
C23_Types == {"GREETING", "INAPPROPRIATE", "RESEARCH"}

C23_ClassifyFailOpen ==
    raw_query_type # None =>
        /\ query_type \in C23_Types
        /\ StripUpper(raw_query_type) \in C23_Types
              => query_type = StripUpper(raw_query_type)
        /\ StripUpper(raw_query_type) \notin C23_Types => query_type = "RESEARCH"

\* C23 witness: an answer that is a sentence was taken as RESEARCH and the
\* run went on to the planner.
C23_Witness ==
    /\ raw_query_type = "It is a greeting" /\ query_type = "RESEARCH"
    /\ last_node = "coordinator" /\ pc = "planner"

\* C24: generate_report does not fail for want of results or of a plan: with
\* no results, with no plan, and with neither, the rapporteur node stores a
\* report and sets current_step to completed unless a backend call raises.
C24_ReportTolerates ==
    (last_node = "rapporteur" /\ (research_results = <<>> \/ research_plan = Missing)) =>
        /\ pc \in {"END", "failed"}
        /\ pc = "failed" => failure = "backend"
        /\ pc = "END" => (final_report # None /\ current_step = "completed")

\* C24 witness: a report was stored with no plan and no results.
C24_Witness ==
    /\ last_node = "rapporteur" /\ pc = "END"
    /\ research_plan = Missing /\ research_results = <<>>
    /\ final_report # None /\ current_step = "completed"

\* ---- Study of evaluate_context_sufficiency as a function of its state ----

\* The result lists handed to evaluate_context_sufficiency.
EvalResults ==
    ReportResults \cup
        {<<[task_id |-> 1, pair |-> 1, error |-> FALSE],
           [task_id |-> 2, pair |-> 1, error |-> FALSE]>>}

\* The iteration_count and max_iterations values of the state argument.
EvalIterations == 0 .. MaxCallerIter
EvalMaxIterations == 0 .. MaxCallerIter + 1

\* A state handed to evaluate_context_sufficiency.
EvalEntry(plan, results, iteration, maxit) ==
    /\ entry = "stream_interactive" /\ max_iterations_arg = maxit /\ has_callback = TRUE
    /\ cli_callback = TRUE
    /\ auto_approve = FALSE
    /\ query_type = "RESEARCH"
    /\ research_plan = plan
    /\ max_iterations = maxit
    /\ plan_approved = (plan # Missing)
    /\ research_results = results
    /\ current_task = 0
    /\ iteration_count = iteration
    /\ final_report = None
    /\ current_step = "researching"
    /\ needs_more_research = TRUE
    /\ user_feedback = None
    /\ simple_response = None
    /\ pc = "evaluate"
    /\ approval_handled = TRUE
    /\ last_node = "researcher" /\ search_calls = Len(results) /\ callback_calls = 0
    /\ planner_path = "none" /\ plan_cycles = 0
    /\ last_response = Missing
    /\ modify_args = Missing /\ gate_decision = "none"
    /\ batches_produced = Len(results)
    /\ attempted = <<>> /\ sufficiency = "none" /\ searched = <<>>
    /\ run_id = 1 /\ pending_runs = {}
    /\ checkpoints = {[thread_id |-> thread_id(1), run |-> 1, next |-> "researcher"]}
    /\ given_feedback = Missing /\ failure = "none" /\ raw_query_type = "Research"

InitEval ==
    \E plan \in {Missing, Some(create_fallback_plan)}, results \in EvalResults,
       iteration \in EvalIterations, maxit \in EvalMaxIterations :
        EvalEntry(plan, results, iteration, maxit)

\* One call of evaluate_context_sufficiency: the two early returns, then the
\* prompt built from the plan and the backend's answer compared with YES.
evaluate_step ==
    /\ pc = "evaluate"
    /\ \E answer \in SufficiencyOutputs, llm_ok \in BOOLEAN :
        LET consults == ConsultsBackend(research_results, iteration_count, max_iterations)
            result == evaluate_context_sufficiency(research_results, iteration_count,
                                                   max_iterations, answer)
        IN  /\ sufficiency' =
                IF ~consults THEN "short-circuit"
                ELSE IF research_plan = Missing \/ ~llm_ok THEN "raised"
                ELSE IF result THEN "sufficient" ELSE "insufficient"
            /\ last_response' =
                IF consults /\ research_plan # Missing /\ llm_ok
                    THEN Some([answer |-> answer]) ELSE Missing
            /\ failure' =
                IF ~consults THEN "none"
                ELSE IF research_plan = Missing THEN "AttributeError"
                ELSE IF ~llm_ok THEN "backend" ELSE "none"
    /\ pc' = "evaluated"
    /\ UNCHANGED <<args, fields, approval_handled, store, given_feedback, raw_query_type>>
    /\ UNCHANGED <<last_node, search_calls, callback_calls, planner_path, plan_cycles,
                   modify_args, gate_decision, batches_produced, attempted, searched>>

NextEval == evaluate_step

SpecEval == InitEval /\ [][NextEval]_vars

\* ---- Study of process_user_input as a function of the state and the input ----

\* Raw backend answers to the intent prompt.
IntentOutputs == {"APPROVE", " approve\n", "MODIFY", "REJECT", "QUESTION", "Reject the plan"}

\* What the user types.
UserInputs == {"", "add more sources", "looks good"}

\* Mutant: a rejected plan is kept.
process_user_input_keeps_plan(plan, approved, user_input, answer) ==
    LET intent == StripUpper(answer) IN
    [user_feedback |-> user_input,
     plan_approved |-> IF intent = "APPROVE" THEN TRUE
                       ELSE IF intent \in {"MODIFY", "REJECT"} THEN FALSE
                       ELSE approved,
     research_plan |-> plan]

\* process_user_input once the backend has answered: what it leaves in
\* user_feedback, plan_approved and research_plan.
process_user_input(plan, approved, user_input, answer) ==
    LET intent == StripUpper(answer) IN
    [user_feedback |-> user_input,
     plan_approved |-> IF intent = "APPROVE" THEN TRUE
                       ELSE IF intent \in {"MODIFY", "REJECT"} THEN FALSE
                       ELSE approved,
     research_plan |-> IF intent = "REJECT" THEN Missing ELSE plan]

\* A state handed to process_user_input.
InputEntry(plan, approved, feedback, results, report) ==
    /\ entry = "stream_interactive" /\ max_iterations_arg = 0 /\ has_callback = TRUE
    /\ cli_callback = TRUE
    /\ auto_approve = FALSE
    /\ query_type = "RESEARCH"
    /\ research_plan = plan
    /\ max_iterations = DefaultMaxIterations
    /\ plan_approved = approved
    /\ research_results = results
    /\ current_task = 0
    /\ iteration_count = Len(results)
    /\ final_report = report
    /\ current_step = IF report # None THEN "completed" ELSE "awaiting_approval"
    /\ needs_more_research = TRUE
    /\ user_feedback = feedback
    /\ simple_response = None
    /\ pc = "input"
    /\ approval_handled = FALSE
    /\ last_node = "none" /\ search_calls = Len(results) /\ callback_calls = 0
    /\ planner_path = "none" /\ plan_cycles = 0
    /\ last_response = Missing
    /\ modify_args = Missing /\ gate_decision = "none"
    /\ batches_produced = Len(results)
    /\ attempted = <<>> /\ sufficiency = "none" /\ searched = <<>>
    /\ run_id = 1 /\ pending_runs = {}
    /\ checkpoints = {}
    /\ given_feedback = Missing /\ failure = "none" /\ raw_query_type = "Research"

InitInput ==
    \E plan \in {Missing, Some(create_fallback_plan)}, approved \in BOOLEAN,
       feedback \in Feedbacks, results \in ReportResults, report \in {None, "report"} :
        InputEntry(plan, approved, feedback, results, report)

\* One call of process_user_input: the input is stored, then the backend is
\* asked for the intent, which may raise, and the state changes by intent.
process_user_input_step ==
    /\ pc = "input"
    /\ \E user_input \in UserInputs, answer \in IntentOutputs, llm_ok \in BOOLEAN :
        LET done == process_user_input(research_plan, plan_approved, user_input, answer)
        IN  /\ given_feedback' = Some(user_input)
            /\ user_feedback' = done.user_feedback
            /\ IF llm_ok
               THEN /\ plan_approved' = done.plan_approved
                    /\ research_plan' = done.research_plan
                    /\ last_response' = Some([answer |-> answer])
                    /\ failure' = "none"
                    /\ pc' = "processed"
               ELSE /\ UNCHANGED <<plan_approved, research_plan, last_response>>
                    /\ failure' = "backend"
                    /\ pc' = generate_raises("input")
    /\ UNCHANGED <<args, query_type, research_results, current_task, iteration_count,
                   max_iterations, final_report, current_step, needs_more_research,
                   simple_response, approval_handled, store, raw_query_type>>
    /\ UNCHANGED <<last_node, search_calls, callback_calls, planner_path, plan_cycles,
                   modify_args, gate_decision, batches_produced, attempted, sufficiency,
                   searched>>

NextInput == process_user_input_step

SpecInput == InitInput /\ [][NextInput]_vars

\* C25: whenever the planner runs again after a rejection, with a plan in the
\* state, it takes the revision path, whatever the recorded feedback, also
\* an empty one.
C25_ReentryRevises ==
    (/\ gate_decision = "reject" /\ last_node = "planner" /\ pc # "human_review"
     /\ research_plan # Missing)
        => planner_path = "modify"

\* C26: after the planner has revised the plan with the feedback, the state
\* carries no feedback any more.
C26_FeedbackConsumed ==
    (last_node = "planner" /\ planner_path = "modify" /\ pc \in {"interrupt", "suspended"})
        => user_feedback = None

\* C27: when the planner has stored a plan, created or revised, the plan is
\* not approved; plan_approved turns true only at the gate, by an approving
\* decision or by auto_approve.
C27_ReplacedPlanUnapproved ==
    /\ []((last_node = "planner" /\ pc \in {"interrupt", "suspended", "failed"})
            => ~plan_approved)
    /\ [][(pc = "planner" /\ research_plan' # research_plan) => ~plan_approved']_vars
    /\ [][(~plan_approved /\ plan_approved') =>
            /\ pc \in {"interrupt", "human_review"}
            /\ gate_decision' \in {"approve", "auto"} \/ auto_approve]_vars

\* C27 witness: a revised plan stands unapproved at the interrupt.
C27_Witness ==
    /\ last_node = "planner" /\ planner_path = "modify" /\ plan_cycles = 2
    /\ last_response # Missing /\ last_response[1].parses
    /\ pc = "interrupt" /\ ~plan_approved

\* C28: after a researcher_node invocation that executed the task returned
\* by get_next_task, that task has status completed in the plan, also when
\* tasks of the plan share an id.
C28_ExecutedTaskCompleted ==
    (last_node = "researcher" /\ attempted # <<>> /\ failure # "KeyError") =>
        research_plan[1].sub_tasks[attempted[Len(attempted)]].status = "completed"

\* C29: the researcher node runs only with an approved plan: it is entered
\* from human_review with plan_approved true, or from itself.
C29_SearchOnlyApproved ==
    /\ [](pc = "researcher" => (plan_approved /\ research_plan # Missing))
    /\ [][(pc' = "researcher" /\ pc # "researcher") =>
            (pc = "human_review" /\ plan_approved')]_vars

\* C29 witness: the researcher is due after an approval by the callback.
C29_Witness ==
    /\ pc = "researcher" /\ last_node = "human_review"
    /\ gate_decision = "approve" /\ ~auto_approve
    /\ plan_approved /\ research_plan # Missing

C31_ReportTerminal ==
    /\ [](final_report # None => (pc = "END" /\ last_node = "rapporteur"))
    /\ [][final_report # None => UNCHANGED <<fields, pc, history>>]_vars
    /\ [][last_node = "rapporteur" => UNCHANGED <<pc, last_node, final_report>>]_vars

\* C31 witness: a run has ended with its report after at least one search.
C31_Witness ==
    /\ pc = "END" /\ last_node = "rapporteur" /\ final_report # None
    /\ search_calls > 0

\* C32: current_step is always one of the seven step names and, when a node
\* has completed, it is the step of that node: coordinating after the
\* coordinator on the research path, planning after the planner,
\* awaiting_approval after human_review, researching after the researcher,
\* completed after the rapporteur or the short-circuit.
C32_StepReflectsNode ==
    /\ current_step \in {"initializing", "coordinating", "planning", "awaiting_approval",
                          "researching", "generating_report", "completed"}
    /\ (last_node = "coordinator" /\ pc = "planner") => current_step = "coordinating"
    /\ (last_node = "planner" /\ pc \in {"interrupt", "suspended"}) =>
            current_step = "planning"
    /\ (last_node = "human_review" /\ pc \in {"planner", "researcher"}) =>
            current_step = "awaiting_approval"
    /\ (last_node = "researcher" /\ pc \in {"researcher", "rapporteur"}) =>
            current_step = "researching"
    /\ pc = "END" => current_step = "completed"

\* C33: in every reachable state iteration_count >= 0 and max_iterations > 0,
\* also after the planner has taken max_iterations from the backend's plan.
C33_PositiveBudget ==
    iteration_count >= 0 /\ max_iterations > 0

\* C36: in every reachable state iteration_count <= max_iterations, whatever
\* estimated_iterations the backend's plan carries.
C36_WithinBudget ==
    iteration_count <= max_iterations

\* C37: after every plan creation max_iterations equals the
\* estimated_iterations of the stored plan (3 for a plan that names none), on
\* the parsed path and on both fallback paths, where it is 2.
C37_BudgetFromPlan ==
    (last_node = "planner" /\ planner_path = "create" /\ pc = "interrupt") =>
        /\ Get(research_plan[1].estimated_iterations, DefaultEstimatedIterations)
               = max_iterations
        /\ research_plan[1] = create_fallback_plan =>
                max_iterations = FallbackEstimatedIterations

\* C34: when the backend call of the classification, of the planner or of the
\* rapporteur raises, the run is failed at that stage at once (no retry), no
\* later stage runs and final_report stays null.
C34_BackendFailureStops ==
    /\ [][(failure' = "backend" /\ last_node' \in {"none", "planner", "rapporteur"}
            /\ <<failure, pc>> # <<failure', pc'>>)
              => pc' = "failed"]_vars
    /\ []((pc = "failed" /\ failure = "backend") =>
            /\ final_report = None
            /\ last_node = "none" => (research_plan = Missing /\ search_calls = 0)
            /\ last_node = "planner" => search_calls = 0)
    /\ [][pc = "failed" => UNCHANGED <<fields, pc, history>>]_vars

\* C34 witness: the report call failed after results had been collected.
C34_Witness ==
    /\ pc = "failed" /\ failure = "backend" /\ last_node = "rapporteur"
    /\ research_results # <<>> /\ final_report = None

\* C35: a suspension at the gate is resolved at most once: the decision is
\* asked for once, recorded once and followed by one resume; after that no
\* interrupt of the run is resumed, the decision is never recorded again and
\* the planner revises the plan with it at most once.
C35_ResolvedOnce ==
    /\ [](callback_calls <= 1)
    /\ [](gate_decision = "reject" => plan_cycles <= 2)
    /\ [][(pc = "interrupt" /\ pc' = "human_review") =>
            (~approval_handled /\ approval_handled')]_vars
    /\ [][approval_handled =>
            (approval_handled' /\
             UNCHANGED <<gate_decision, given_feedback, callback_calls>>)]_vars
    /\ [][modify_args # Missing => modify_args' = modify_args]_vars

\* C35 witness: the rejection was recorded once, the plan revised with it and
\* the run has stopped at the second interrupt without asking again.
C35_Witness ==
    /\ pc = "suspended" /\ gate_decision = "reject" /\ callback_calls = 1
    /\ approval_handled /\ planner_path = "modify" /\ plan_cycles = 2

\* C38: no task is executed twice in a run: the tasks the researcher has
\* executed are pairwise distinct, and they are no more than the tasks of
\* the plan.
C38_NoTaskTwice ==
    /\ \A i, j \in 1..Len(attempted) : i # j => attempted[i] # attempted[j]
    /\ research_plan # Missing => Len(attempted) <= Len(research_plan[1].sub_tasks)

\* C39: a researcher_node invocation that finds no pending task leaves the
\* results, iteration_count, current_task and the plan as they are, sets
\* needs_more_research to false, and the rapporteur follows it.
C39_NoTaskInvocation ==
    [][(pc = "researcher" /\ research_plan # Missing /\ get_next_task(research_plan) = 0) =>
            /\ UNCHANGED <<research_results, iteration_count, current_task, research_plan>>
            /\ ~needs_more_research'
            /\ pc' = "rapporteur"]_vars

\* C39 witness: the first invocation found a plan without pending tasks and
\* the rapporteur is due.
C39_Witness ==
    /\ last_node = "researcher" /\ pc = "rapporteur" /\ attempted = <<>>
    /\ search_calls = 1 /\ ~needs_more_research
    /\ research_results = <<>> /\ iteration_count = 0

\* C40: process_user_input always stores the input as user_feedback and
\* otherwise changes the state by intent only: APPROVE approves and keeps the
\* plan, MODIFY disapproves and keeps the plan, REJECT disapproves and clears
\* the plan, any other intent leaves both; results, iteration_count and
\* final_report are never changed.
C40_InputByIntent ==
    [][(pc = "input" /\ pc' # "input") =>
        /\ given_feedback' # Missing /\ user_feedback' = given_feedback'[1]
        /\ UNCHANGED <<research_results, iteration_count, final_report>>
        /\ pc' = "processed" =>
              LET intent == StripUpper(last_response'[1].answer) IN
              /\ intent = "APPROVE" => (plan_approved' /\ research_plan' = research_plan)
              /\ intent = "MODIFY" => (~plan_approved' /\ research_plan' = research_plan)
              /\ intent = "REJECT" => (~plan_approved' /\ research_plan' = Missing)
              /\ intent \notin {"APPROVE", "MODIFY", "REJECT"} =>
                    UNCHANGED <<plan_approved, research_plan>>
        /\ pc' # "processed" => UNCHANGED <<plan_approved, research_plan>>]_vars

\* C40 witness: a REJECT has replaced the feedback, cleared the plan and left
\* the results and the report in place.
C40_Witness ==
    /\ pc = "processed" /\ StripUpper(last_response[1].answer) = "REJECT"
    /\ user_feedback = "looks good" /\ research_plan = Missing /\ ~plan_approved
    /\ research_results # <<>> /\ final_report = "report"

====
